---- MODULE Spec2Model ----
(***************************************************************************)
(* A model of the macaroons crate: Token (src/src/lib.rs) with its packet  *)
(* codec, and the caveat verifiers of src/src/verifier.rs.                 *)
(*                                                                         *)
(* Byte strings (Vec<u8>, &[u8]) are sequences of integers 0..255.         *)
(* A call's outcome is a record with a kind: "Ok", "Err" (a returned       *)
(* Result::Err with its reason) or "Panic" (the thread unwinds).           *)
(***************************************************************************)
EXTENDS Integers, Sequences, FiniteSets, TLC

\* ------------------------------------------------------------- constants

PACKET_PREFIX_LENGTH == 4
MAX_PACKET_LENGTH == 65535
TAGBYTES == 32

\* b"macaroons-key-generator" followed by nine zero bytes: 32 bytes.
KEY_GENERATOR ==
  <<109, 97, 99, 97, 114, 111, 111, 110, 115, 45, 107, 101, 121, 45, 103,
    101, 110, 101, 114, 97, 116, 111, 114, 0, 0, 0, 0, 0, 0, 0, 0, 0>>

F_location   == <<108, 111, 99, 97, 116, 105, 111, 110>>
F_identifier == <<105, 100, 101, 110, 116, 105, 102, 105, 101, 114>>
F_cid        == <<99, 105, 100>>
F_signature  == <<115, 105, 103, 110, 97, 116, 117, 114, 101>>

SP == 32
NL == 10

None == [some |-> FALSE, v |-> <<>>]
Some(x) == [some |-> TRUE, v |-> x]

NoToken == [location |-> <<>>, identifier |-> <<>>, caveats |-> <<>>, tag |-> <<>>]

Ok(x) == [kind |-> "Ok", val |-> x, err |-> ""]
Err(reason) == [kind |-> "Err", val |-> <<>>, err |-> reason]
Panic(msg) == [kind |-> "Panic", val |-> <<>>, err |-> msg]

\* A Rust range slice s[a .. b] (0-based, b exclusive); the caller has
\* checked a <= b <= Len(s), otherwise the slice expression panics.
SliceOk(s, a, b) == a <= b /\ b <= Len(s)
Slice(s, a, b) == SubSeq(s, a + 1, b)

\* ------------------------------------------------- the keyed MAC (external)

\* sodiumoxide's hmacsha256::authenticate(message, key) is an external
\* primitive.  It is modelled as a deterministic keyed digest with a fixed
\* TAGBYTES-byte output that depends on every byte of the key and of the
\* message, on their order, and on which of the two is which.
RECURSIVE Digest(_, _, _)
Digest(s, lo, hi) ==
  IF lo > hi THEN 1
  ELSE IF lo = hi THEN s[lo] + 2
  ELSE (Digest(s, lo, (lo + hi) \div 2) * 31
        + Digest(s, ((lo + hi) \div 2) + 1, hi) * 7 + 3) % 65521

authenticate(m, k) ==
  LET h == (Digest(k, 1, Len(k)) * 257 + Digest(m, 1, Len(m)) * 3 + 12345) % 65521
  IN  [i \in 1..TAGBYTES |-> (h + (h \div 256) * i + 17 * i * i) % 256] \o <<>>

\* ------------------------------------------------------- base64 (external)

\* rustc-serialize: to_base64(URL_SAFE) uses the URL-safe alphabet, no
\* padding and no line breaks.
B64Char(v) ==
  IF v < 26 THEN 65 + v
  ELSE IF v < 52 THEN 97 + (v - 26)
  ELSE IF v < 62 THEN 48 + (v - 52)
  ELSE IF v = 62 THEN 45 ELSE 95

ByteAt(s, i) == IF i <= Len(s) THEN s[i] ELSE 0

ToBase64(bytes) ==
  LET n == Len(bytes)
      outLen == 4 * (n \div 3) + (IF n % 3 = 0 THEN 0 ELSE (n % 3) + 1)
      Sym(j) ==
        LET g  == (j - 1) \div 4
            k  == (j - 1) % 4
            b0 == ByteAt(bytes, 3 * g + 1)
            b1 == ByteAt(bytes, 3 * g + 2)
            b2 == ByteAt(bytes, 3 * g + 3)
        IN  IF k = 0 THEN b0 \div 4
            ELSE IF k = 1 THEN (b0 % 4) * 16 + (b1 \div 16)
            ELSE IF k = 2 THEN (b1 % 16) * 4 + (b2 \div 64)
            ELSE b2 % 64
  IN  [j \in 1..outLen |-> B64Char(Sym(j))] \o <<>>

\* from_base64 accepts both alphabets, skips CR and LF, stops at the first
\* '=' (after which only '=', CR and LF may follow) and fails on any other
\* byte or on a dangling single symbol.
IsB64Sym(c) ==
  \/ (c >= 65 /\ c <= 90) \/ (c >= 97 /\ c <= 122) \/ (c >= 48 /\ c <= 57)
  \/ c \in {43, 45, 47, 95}

B64Val(c) ==
  IF c >= 65 /\ c <= 90 THEN c - 65
  ELSE IF c >= 97 /\ c <= 122 THEN c - 71
  ELSE IF c >= 48 /\ c <= 57 THEN c + 4
  ELSE IF c \in {43, 45} THEN 62 ELSE 63

\* The bytes of a run of base64 symbols whose length is not 1 modulo 4.
B64Bytes(syms) ==
  LET m == Len(syms)
      outLen == 3 * (m \div 4) + (IF m % 4 = 0 THEN 0 ELSE (m % 4) - 1)
  IN  [j \in 1..outLen |->
        LET g == (j - 1) \div 3
            k == (j - 1) % 3
        IN  IF k = 0 THEN B64Val(syms[4 * g + 1]) * 4 + (B64Val(syms[4 * g + 2]) \div 16)
            ELSE IF k = 1
              THEN (B64Val(syms[4 * g + 2]) % 16) * 16 + (B64Val(syms[4 * g + 3]) \div 4)
            ELSE (B64Val(syms[4 * g + 3]) % 4) * 64 + B64Val(syms[4 * g + 4])] \o <<>>

B64Stop(text, eqs) ==
  IF eqs = {} THEN Len(text) + 1 ELSE CHOOSE i \in eqs : \A j \in eqs : i <= j

B64Decode(text, stop, syms) ==
  IF \/ \E i \in 1..(stop - 1) : ~IsB64Sym(text[i]) /\ text[i] \notin {13, NL}
     \/ \E i \in stop..Len(text) : text[i] \notin {61, 13, NL}
     \/ Len(syms) % 4 = 1
  THEN Err("couldn't parse base64")
  ELSE Ok(B64Bytes(syms))

FromBase64(text) ==
  LET stop == B64Stop(text, {i \in 1..Len(text) : text[i] = 61})
  IN  B64Decode(text, stop, SelectSeq(SubSeq(text, 1, stop - 1), IsB64Sym))

\* ------------------------------------------------------- text conversions

\* format!("{:04x}", n): lowercase hex, zero-padded to at least 4 digits.
HexDigit(d) == IF d < 10 THEN 48 + d ELSE 97 + (d - 10)

RECURSIVE HexDigits(_)
HexDigits(n) == IF n < 16 THEN <<HexDigit(n)>> ELSE Append(HexDigits(n \div 16), HexDigit(n % 16))

Format04x(n) ==
  LET ds == HexDigits(n)
  IN  IF Len(ds) >= 4 THEN ds ELSE [i \in 1..(4 - Len(ds)) |-> 48] \o ds

\* std::str::from_utf8 on a byte slice: whether it is well-formed UTF-8.
IsCont(b) == b >= 128 /\ b <= 191

RECURSIVE IsUtf8(_, _)
IsUtf8(s, i) ==
  IF i > Len(s) THEN TRUE
  ELSE LET b == s[i] IN
    IF b < 128 THEN IsUtf8(s, i + 1)
    ELSE IF b >= 194 /\ b <= 223
      THEN i + 1 <= Len(s) /\ IsCont(s[i + 1]) /\ IsUtf8(s, i + 2)
    ELSE IF b >= 224 /\ b <= 239
      THEN /\ i + 2 <= Len(s) /\ IsCont(s[i + 1]) /\ IsCont(s[i + 2])
           /\ (b = 224 => s[i + 1] >= 160)
           /\ (b = 237 => s[i + 1] <= 159)
           /\ IsUtf8(s, i + 3)
    ELSE IF b >= 240 /\ b <= 244
      THEN /\ i + 3 <= Len(s)
           /\ IsCont(s[i + 1]) /\ IsCont(s[i + 2]) /\ IsCont(s[i + 3])
           /\ (b = 240 => s[i + 1] >= 144)
           /\ (b = 244 => s[i + 1] <= 143)
           /\ IsUtf8(s, i + 4)
    ELSE FALSE

\* char::to_digit(16): 0-9, a-f, A-F.
IsHexChar(c) == (c >= 48 /\ c <= 57) \/ (c >= 97 /\ c <= 102) \/ (c >= 65 /\ c <= 70)
HexVal(c) == IF c <= 57 THEN c - 48 ELSE IF c >= 97 THEN c - 87 ELSE c - 55

\* std::num::from_str_radix::<usize>(s, 16) on the 4-byte prefix: every
\* character must be a hex digit (no sign, no blank).
FromStrRadix16(s) ==
  IF Len(s) > 0 /\ \A i \in 1..Len(s) : IsHexChar(s[i])
  THEN Ok(((HexVal(s[1]) * 16 + HexVal(s[2])) * 16 + HexVal(s[3])) * 16 + HexVal(s[4]))
  ELSE Err("couldn't parse packet length")

\* ------------------------------------------------------------------ Caveat

\* Caveat::new(Predicate(bytes)): a first-party caveat (no verification id).
CaveatNew(predicate) == [predicate |-> predicate, verification_id |-> None]

\* ------------------------------------------------------------------- Token

\* Token::packetize: appends one packet to `result`, or panics.
PacketLength(field, value) == PACKET_PREFIX_LENGTH + Len(field) + Len(value) + 2

\* A variant whose bound is off by one: it refuses a packet of exactly
\* MAX_PACKET_LENGTH bytes.
Packetize_Strict(result, field, value) ==
  LET packet_length == PacketLength(field, value)
  IN  IF packet_length >= MAX_PACKET_LENGTH
      THEN Panic("packet too large to serialize")
      ELSE Ok(result \o Format04x(packet_length) \o field \o <<SP>> \o value \o <<NL>>)

Packetize(result, field, value) ==
  LET packet_length == PacketLength(field, value)
  IN  IF packet_length > MAX_PACKET_LENGTH
      THEN Panic("packet too large to serialize")
      ELSE Ok(result \o Format04x(packet_length) \o field \o <<SP>> \o value \o <<NL>>)

\* The `for caveat in self.caveats.iter()` loop of serialize.
RECURSIVE PacketizeCaveats(_, _, _)
PacketizeCaveats(acc, caveats, i) ==
  IF acc.kind # "Ok" \/ i > Len(caveats) THEN acc
  ELSE PacketizeCaveats(Packetize(acc.val, F_cid, caveats[i].predicate), caveats, i + 1)

\* Token::serialize: Ok(base64 text), or the panic of a packetize call.
Serialize(self) ==
  LET r1 == Packetize(<<>>, F_location, self.location)
      r2 == IF r1.kind = "Ok" THEN Packetize(r1.val, F_identifier, self.identifier) ELSE r1
      r3 == PacketizeCaveats(r2, self.caveats, 1)
      r4 == IF r3.kind = "Ok" THEN Packetize(r3.val, F_signature, self.tag) ELSE r3
  IN  IF r4.kind = "Ok" THEN Ok(ToBase64(r4.val)) ELSE r4

\* A variant that splits a packet at its last space instead of its first.
FirstSpace_Last(bytes) ==
  LET S == {i \in 1..Len(bytes) : bytes[i] = SP}
  IN  IF S = {} THEN 0 ELSE CHOOSE i \in S : \A j \in S : i >= j

\* packet_bytes.iter().position(|&byte| byte == b' '): the 1-based place of
\* the first space, 0 for None.
FirstSpace(bytes) ==
  LET S == {i \in 1..Len(bytes) : bytes[i] = SP}
  IN  IF S = {} THEN 0 ELSE CHOOSE i \in S : \A j \in S : i <= j

Depacketize(data, index) ==
  IF ~SliceOk(data, index, index + PACKET_PREFIX_LENGTH)
  THEN Panic("slice index out of range")
  ELSE
    LET prefix == Slice(data, index, index + PACKET_PREFIX_LENGTH) IN
    IF ~IsUtf8(prefix, 1) THEN Err("couldn't stringify packet length")
    ELSE
      LET parsed == FromStrRadix16(prefix) IN
      IF parsed.kind # "Ok" THEN parsed
      ELSE
        LET packet_length == parsed.val IN
        IF ~SliceOk(data, index + PACKET_PREFIX_LENGTH, index + packet_length)
        THEN Panic("slice index out of range")
        ELSE
          LET packet_bytes == Slice(data, index + PACKET_PREFIX_LENGTH, index + packet_length)
              pos == FirstSpace(packet_bytes)
          IN  IF pos = 0 THEN Err("malformed packet")
              ELSE
                LET field == SubSeq(packet_bytes, 1, pos - 1)
                    \* split_off(pos) then remove(0): the bytes after the space
                    rest  == SubSeq(packet_bytes, pos + 1, Len(packet_bytes))
                IN  IF rest = <<>> THEN Panic("called Option::unwrap() on a None value")
                    ELSE IF rest[Len(rest)] # NL THEN Err("packet not newline terminated")
                    ELSE Ok([field |-> field,
                             value |-> SubSeq(rest, 1, Len(rest) - 1),
                             taken |-> packet_length])

\* The while loop of deserialize over the decoded bytes; `acc` holds the
\* four locals (location, identifier, caveats, tag).
RECURSIVE DeserializeLoop(_, _, _)
DeserializeLoop(token_data, index, acc) ==
  IF ~(index < Len(token_data)) THEN Ok(acc)
  ELSE
    LET r == Depacketize(token_data, index) IN
    IF r.kind # "Ok" THEN r
    ELSE
      LET p == r.val
          next == index + p.taken
      IN  IF p.field = F_location
            THEN DeserializeLoop(token_data, next, [acc EXCEPT !.location = Some(p.value)])
          ELSE IF p.field = F_identifier
            THEN DeserializeLoop(token_data, next, [acc EXCEPT !.identifier = Some(p.value)])
          ELSE IF p.field = F_cid
            THEN DeserializeLoop(token_data, next,
                   [acc EXCEPT !.caveats = Append(@, CaveatNew(p.value))])
          ELSE IF p.field = F_signature
            THEN IF Len(p.value) # TAGBYTES THEN Err("invalid signature length")
                 ELSE DeserializeLoop(token_data, next, [acc EXCEPT !.tag = Some(p.value)])
          ELSE Err("unrecognized packet type")

\* A variant that tests the identifier before the location.
MissingField_IdentifierFirst(acc) ==
  IF ~acc.identifier.some THEN "no 'identifier' found"
  ELSE IF ~acc.location.some THEN "no 'location' found"
  ELSE IF ~acc.tag.some THEN "no 'signature' found"
  ELSE ""

\* The three `== None` tests that follow the loop of deserialize, in their
\* order: the reason of the first that fires, "" when none does.
MissingField(acc) ==
  IF ~acc.location.some THEN "no 'location' found"
  ELSE IF ~acc.identifier.some THEN "no 'identifier' found"
  ELSE IF ~acc.tag.some THEN "no 'signature' found"
  ELSE ""

\* Token::deserialize(macaroon).
Deserialize(macaroon) ==
  LET decoded == FromBase64(macaroon) IN
  IF decoded.kind # "Ok" THEN decoded
  ELSE
    LET r == DeserializeLoop(decoded.val, 0,
               [location |-> None, identifier |-> None, caveats |-> <<>>, tag |-> None])
    IN  IF r.kind # "Ok" THEN r
        ELSE IF MissingField(r.val) # "" THEN Err(MissingField(r.val))
        ELSE Ok([location   |-> r.val.location.v,
                 identifier |-> r.val.identifier.v,
                 caveats    |-> r.val.caveats,
                 tag        |-> r.val.tag.v])

\* A variant that keys the first MAC with the root key and takes the
\* constant as its message.
TokenNew_RootAsKey(key, identifier, location) ==
  LET personalized_key == authenticate(KEY_GENERATOR, key)
      tag == authenticate(identifier, personalized_key)
  IN  [location |-> location, identifier |-> identifier, caveats |-> <<>>, tag |-> tag]

\* Token::new(key, identifier, location).
TokenNew(key, identifier, location) ==
  LET personalized_key == authenticate(key, KEY_GENERATOR)
      tag == authenticate(identifier, personalized_key)
  IN  [location |-> location, identifier |-> identifier, caveats |-> <<>>, tag |-> tag]

\* A variant that keys the chain step with the predicate and takes the
\* current tag as its message.
TokenAddCaveat_SwappedMac(self, caveat) ==
  LET tag == authenticate(self.tag, caveat.predicate)
      new_caveats == Append(self.caveats, caveat)
  IN  [self |-> self,
       ret  |-> [identifier |-> self.identifier,
                 location   |-> self.location,
                 caveats    |-> new_caveats,
                 tag        |-> tag]]

\* A variant that puts the new caveat first.
TokenAddCaveat_Prepend(self, caveat) ==
  LET tag == authenticate(caveat.predicate, self.tag)
      new_caveats == <<caveat>> \o self.caveats
  IN  [self |-> self,
       ret  |-> [identifier |-> self.identifier,
                 location   |-> self.location,
                 caveats    |-> new_caveats,
                 tag        |-> tag]]

\* Token::add_caveat(&self, caveat): the returned Token (`ret`) and the
\* receiver as the call leaves it (`self`; the body only reads it).
TokenAddCaveat(self, caveat) ==
  LET tag == authenticate(caveat.predicate, self.tag)
      new_caveats == Append(self.caveats, caveat)
  IN  [self |-> self,
       ret  |-> [identifier |-> self.identifier,
                 location   |-> self.location,
                 caveats    |-> new_caveats,
                 tag        |-> tag]]

\* --------------------------------------------------------------- verifiers

\* A verifier value is a record with a kind: Eq(tag, value), ByteFunc(f),
\* Func(f), or a LinkedVerifier of two verifiers.  A closure is named; what
\* it computes is given by ApplyFn.
Eq(tag, value) == [kind |-> "Eq", tag |-> tag, value |-> value]
ByteFunc(f) == [kind |-> "ByteFunc", f |-> f]
Func(f) == [kind |-> "Func", f |-> f]

\* LinkedVerifier::from(verifier1, verifier2).
LinkedVerifierFrom(verifier1, verifier2) ==
  [kind |-> "Linked", verifier1 |-> verifier1, verifier2 |-> verifier2]

\* LinkVerifier::link: self.link(verifier) = LinkedVerifier::from(verifier, self).
Link(self, verifier) == LinkedVerifierFrom(verifier, self)

\* The closures callers hand to Func and ByteFunc in this model.
ApplyFn(f, caveat) ==
  IF f = "is_empty" THEN caveat = <<>>
  ELSE IF f = "has_newline" THEN \E i \in 1..Len(caveat) : caveat[i] = NL
  ELSE FALSE

\* b" = "
OP_EQ == <<32, 61, 32>>

\* A variant without the length test.
EqVerify_NoLengthTest(tag, value, caveat) ==
  IF ~SliceOk(caveat, 0, Len(tag)) THEN Panic("slice index out of range")
  ELSE IF Slice(caveat, 0, Len(tag)) # tag THEN Ok(FALSE)
  ELSE IF ~SliceOk(caveat, Len(tag), Len(tag) + Len(OP_EQ))
    THEN Panic("slice index out of range")
  ELSE IF Slice(caveat, Len(tag), Len(tag) + Len(OP_EQ)) # OP_EQ THEN Ok(FALSE)
  ELSE IF ~SliceOk(caveat, Len(tag) + Len(OP_EQ), Len(caveat))
    THEN Panic("slice index out of range")
  ELSE Ok(Slice(caveat, Len(tag) + Len(OP_EQ), Len(caveat)) = value)

\* Eq::verify: the length test guards the three slices; a slice out of
\* range would panic.
EqVerify(tag, value, caveat) ==
  LET len == Len(tag) + Len(OP_EQ) + Len(value) IN
  IF len # Len(caveat) THEN Ok(FALSE)
  ELSE IF ~SliceOk(caveat, 0, Len(tag)) THEN Panic("slice index out of range")
  ELSE IF Slice(caveat, 0, Len(tag)) # tag THEN Ok(FALSE)
  ELSE IF ~SliceOk(caveat, Len(tag), Len(tag) + Len(OP_EQ))
    THEN Panic("slice index out of range")
  ELSE IF Slice(caveat, Len(tag), Len(tag) + Len(OP_EQ)) # OP_EQ THEN Ok(FALSE)
  ELSE IF ~SliceOk(caveat, Len(tag) + Len(OP_EQ), Len(caveat))
    THEN Panic("slice index out of range")
  ELSE Ok(Slice(caveat, Len(tag) + Len(OP_EQ), Len(caveat)) = value)

\* Func::verify: from_utf8(caveat).map(f).unwrap_or(false).
FuncVerify(f, caveat) == Ok(IF IsUtf8(caveat, 1) THEN ApplyFn(f, caveat) ELSE FALSE)

\* ByteFunc::verify.
ByteFuncVerify(f, caveat) == Ok(ApplyFn(f, caveat))

\* A variant that asks the first verifier only.
LinkedVerifierVerify_FirstOnly(r1, r2) == r1

\* A variant that wants both verifiers to accept.
LinkedVerifierVerify_And(r1, r2) ==
  IF r1.kind # "Ok" THEN r1
  ELSE IF ~r1.val THEN Ok(FALSE)
  ELSE r2

\* LinkedVerifier::verify: verifier1.verify(caveat) || verifier2.verify(caveat),
\* given the two outcomes (the second is only run when the first is false).
LinkedVerifierVerify(r1, r2) ==
  IF r1.kind # "Ok" THEN r1
  ELSE IF r1.val THEN Ok(TRUE)
  ELSE r2

\* Verifier::verify, dispatched on the kind of verifier.
RECURSIVE VerifierVerify(_, _)
VerifierVerify(v, caveat) ==
  IF v.kind = "Eq" THEN EqVerify(v.tag, v.value, caveat)
  ELSE IF v.kind = "Func" THEN FuncVerify(v.f, caveat)
  ELSE IF v.kind = "ByteFunc" THEN ByteFuncVerify(v.f, caveat)
  ELSE LinkedVerifierVerify(VerifierVerify(v.verifier1, caveat),
                            VerifierVerify(v.verifier2, caveat))

\* ---------------------------------------------------- verification (spec)

\* verify(root_key, token) with a registered checker: replay new and
\* add_caveat from root_key, compare with the stored signature, then check
\* every caveat in order.
RECURSIVE ReplayChain(_, _, _)
ReplayChain(t, caveats, i) ==
  IF i > Len(caveats) THEN t
  ELSE ReplayChain(TokenAddCaveat(t, caveats[i]).ret, caveats, i + 1)

RECURSIVE CheckCaveats(_, _, _)
CheckCaveats(checker, caveats, i) ==
  IF i > Len(caveats) THEN "accepted"
  ELSE IF caveats[i].verification_id.some THEN "UnsupportedCaveatError"
  ELSE LET r == VerifierVerify(checker, caveats[i].predicate) IN
       IF r.kind = "Ok" /\ r.val THEN CheckCaveats(checker, caveats, i + 1)
       ELSE "CaveatRejectedError"

Verify(root_key, token, checker) ==
  LET expected == ReplayChain(TokenNew(root_key, token.identifier, token.location),
                              token.caveats, 1).tag
  IN  IF expected # token.tag THEN "SignatureMismatchError"
      ELSE CheckCaveats(checker, token.caveats, 1)

\* ------------------------------------------------------------------ bounds

MaxCaveats == 2
MaxPackets == 3
MaxLinks == 2
MaxTamperPos == 16

\* ------------------------------------------------------------------ inputs

Fill(n, b) == [i \in 1..n |-> b] \o <<>>

RootKeys == {Fill(32, 0), Fill(32, 1)}
Identifiers == {<<116, 101, 115, 116, 45, 105, 100>>, <<>>}
Locations == {<<>>, <<104, 32, 10>>}

P_alice == <<117, 115, 101, 114, 32, 61, 32, 97, 108, 105, 99, 101>>
P_bob   == <<117, 115, 101, 114, 32, 61, 32, 98, 111, 98>>
P_other == <<116, 32, 60, 10, 57>>
Predicates == {P_alice, P_other}

T_user  == <<117, 115, 101, 114>>
V_alice == <<97, 108, 105, 99, 101>>
V_bob   == <<98, 111, 98>>

\* The checkers a verifying caller registers.
Checkers ==
  { Eq(T_user, V_bob),
    Link(Link(Eq(T_user, V_alice), Eq(T_user, V_bob)), Func("has_newline")) }

\* Bytes an altered copy of a serialized token may carry in place of the
\* original ones: '0', 'd', space, and a byte that is never valid UTF-8.
TamperBytes == {48, 100, SP, 255}

\* Packets a peer may put in a stream it builds itself.
PacketMenu ==
  { [field |-> F_location,   value |-> <<>>],
    [field |-> F_location,   value |-> <<104, 32, 10>>],
    [field |-> F_identifier, value |-> <<105>>],
    [field |-> F_cid,        value |-> P_bob],
    [field |-> F_signature,  value |-> Fill(TAGBYTES, SP)],
    [field |-> F_signature,  value |-> <<1, 2>>],
    [field |-> <<118, 105, 100>>, value |-> <<120>>] }

\* Tokens built directly from their (public) fields, for the codec alone.
CodecValues == {<<>>, <<SP>>, <<NL>>, <<97, SP, 98, NL>>}
CodecCaveats ==
  { <<>>, <<CaveatNew(<<>>)>>, <<CaveatNew(P_other), CaveatNew(<<SP, SP>>)>>,
    <<CaveatNew(<<SP, SP>>), CaveatNew(P_other)>> }
CodecTags == {Fill(TAGBYTES, 0), Fill(TAGBYTES, SP), Fill(TAGBYTES, NL)}

\* The longest value a packet of this field can carry.
FitLen(field) == MAX_PACKET_LENGTH - PACKET_PREFIX_LENGTH - Len(field) - 2

SmallTokens ==
  { [location |-> l, identifier |-> i, caveats |-> c, tag |-> t] :
      l \in CodecValues, i \in CodecValues \ {<<NL>>}, c \in CodecCaveats, t \in CodecTags }

LargeTokens ==
  { [location |-> Fill(FitLen(F_location) + d, 120), identifier |-> <<>>,
     caveats |-> <<>>, tag |-> Fill(TAGBYTES, 0)] : d \in {0, 1} }
  \cup
  { [location |-> <<>>, identifier |-> Fill(FitLen(F_identifier) + d, 120),
     caveats |-> <<>>, tag |-> Fill(TAGBYTES, 0)] : d \in {0, 1} }
  \cup
  { [location |-> <<>>, identifier |-> <<105>>,
     caveats |-> <<CaveatNew(<<>>), CaveatNew(Fill(FitLen(F_cid) + d, 120))>>,
     tag |-> Fill(TAGBYTES, 0)] : d \in {0, 1} }

\* Inputs of Eq::verify.
EqTags == {<<>>, <<117>>, T_user}
EqValues == {<<>>, <<97>>, V_bob}
EqCaveats ==
  { t \o OP_EQ \o v : t \in EqTags, v \in EqValues }
  \cup { <<>>, <<SP>>, <<117, SP, 61>>, <<117, 61, SP, SP, 97>>, <<117, SP, 61, SP, 98>>,
         <<117, SP, 61, SP, 97, 97>>, <<SP, 61, SP, 97>> \o <<97>>, P_alice, P_alice \o <<10>> }

\* Leaf verifiers and the caveats put to a linked chain.
Leaves ==
  { Eq(T_user, V_alice), Eq(T_user, V_bob), ByteFunc("is_empty"), Func("has_newline") }
ChainCaveats == {P_alice, P_bob, P_other, <<>>, <<255, NL>>}

\* ------------------------------------------------------------------- state

VARIABLES
  given,     \* the arguments of the Token::new call
  minted,    \* the Token that Token::new returned
  tok,       \* the Token the holder has now
  recv,      \* the receiver of the last add_caveat call, as the call left it
  last,      \* the last add_caveat call: the receiver before it and the caveat
  wire,      \* the outcome of serialize, or the bytes a peer sent
  pkts,      \* the packets `wire` was built from, when they are known
  tampered,  \* whether the bytes of `wire` were altered in transit
  parsed,    \* the outcome of deserialize on `wire`
  verdict,   \* the last verify call: its root key, checker and result
  chain,     \* a verifier under construction with link
  members,   \* the leaf verifiers linked into `chain`
  lres,      \* the last verify call on `chain`: the caveat and the outcome
  eqc        \* the last Eq::verify call: its inputs and the outcome

vars == <<given, minted, tok, recv, last, wire, pkts, tampered, parsed, verdict,
          chain, members, lres, eqc>>

tokenVars == <<given, minted, tok, recv, last>>
wireVars == <<wire, pkts, tampered>>
verifierVars == <<chain, members, lres, eqc>>

NoOutcome == [kind |-> "None", val |-> <<>>, err |-> ""]
NoVerdict == [done |-> FALSE, key |-> <<>>, checker |-> <<>>, result |-> ""]
NoCall == [done |-> FALSE]

InitToken ==
  /\ given = NoCall /\ minted = None /\ tok = None /\ recv = None
  /\ last = NoCall
InitWire ==
  /\ wire = NoOutcome /\ pkts = None /\ tampered = FALSE /\ parsed = NoOutcome
  /\ verdict = NoVerdict
InitVerifier ==
  /\ chain = None /\ members = {} /\ lres = NoCall /\ eqc = NoCall

\* The packets serialize emits for a token.
TokenPackets(t) ==
  <<[field |-> F_location, value |-> t.location],
    [field |-> F_identifier, value |-> t.identifier]>>
  \o [i \in 1..Len(t.caveats) |-> [field |-> F_cid, value |-> t.caveats[i].predicate]]
  \o <<[field |-> F_signature, value |-> t.tag]>>

\* ------------------------------------------------------------- token actions

\* let t = Token::new(key, identifier, location)
New(key, identifier, location) ==
  /\ ~minted.some
  /\ wire.kind = "None"
  /\ given' = [done |-> TRUE, key |-> key, identifier |-> identifier,
                location |-> location]
  /\ LET t == TokenNew(key, identifier, location) IN
       /\ minted' = Some(t)
       /\ tok' = Some(t)
  /\ UNCHANGED <<recv, last, wire, pkts, tampered, parsed, verdict, verifierVars>>

\* let t2 = t.add_caveat(Caveat::new(Predicate(predicate)))
AddCaveat(predicate) ==
  /\ tok.some
  /\ wire.kind = "None"
  /\ Len(tok.v.caveats) < MaxCaveats
  /\ LET call == TokenAddCaveat(tok.v, CaveatNew(predicate)) IN
       /\ recv' = Some(call.self)
       /\ tok' = Some(call.ret)
       /\ last' = [done |-> TRUE, before |-> tok.v, caveat |-> CaveatNew(predicate)]
  /\ UNCHANGED <<given, minted, wire, pkts, tampered, parsed, verdict, verifierVars>>

\* let bytes = t.serialize()
DoSerialize ==
  /\ tok.some
  /\ wire.kind = "None"
  /\ wire' = Serialize(tok.v)
  /\ pkts' = IF wire'.kind = "Ok" THEN Some(TokenPackets(tok.v)) ELSE None
  /\ UNCHANGED <<tokenVars, tampered, parsed, verdict, verifierVars>>

\* A peer that holds no token sends a stream it built packet by packet.
CraftPacket(p) ==
  /\ ~minted.some /\ ~tok.some
  /\ parsed.kind = "None"
  /\ wire.kind \in {"None", "Ok"}
  /\ Len(pkts.v) < MaxPackets
  /\ LET raw == IF wire.kind = "Ok" THEN FromBase64(wire.val).val ELSE <<>>
         out == Packetize(raw, p.field, p.value)
     IN  /\ out.kind = "Ok"
         /\ wire' = Ok(ToBase64(out.val))
  /\ pkts' = Some(Append(pkts.v, p))
  /\ UNCHANGED <<tokenVars, tampered, parsed, verdict, verifierVars>>

\* A peer sends an empty message.
CraftEmpty ==
  /\ ~minted.some /\ ~tok.some
  /\ wire.kind = "None"
  /\ wire' = Ok(<<>>)
  /\ pkts' = Some(<<>>)
  /\ UNCHANGED <<tokenVars, tampered, parsed, verdict, verifierVars>>

\* In transit, one byte of the packet stream is replaced.
Overwrite(i, b) ==
  /\ wire.kind = "Ok" /\ ~tampered /\ parsed.kind = "None" /\ minted.some
  /\ LET raw == FromBase64(wire.val).val IN
       /\ i <= Len(raw)
       /\ raw[i] # b
       /\ wire' = Ok(ToBase64([raw EXCEPT ![i] = b]))
  /\ tampered' = TRUE
  /\ pkts' = None
  /\ UNCHANGED <<tokenVars, parsed, verdict, verifierVars>>

\* In transit, the packet stream is cut to its first n bytes.
Truncate ==
  /\ wire.kind = "Ok" /\ ~tampered /\ parsed.kind = "None" /\ minted.some
  /\ LET raw == FromBase64(wire.val).val IN
       \E n \in 0..(Len(raw) - 1) : wire' = Ok(ToBase64(SubSeq(raw, 1, n)))
  /\ tampered' = TRUE
  /\ pkts' = None
  /\ UNCHANGED <<tokenVars, parsed, verdict, verifierVars>>

\* In transit, the first character of the text is replaced by '!'.
Garble ==
  /\ wire.kind = "Ok" /\ ~tampered /\ parsed.kind = "None" /\ minted.some
  /\ Len(wire.val) > 0
  /\ wire' = Ok([wire.val EXCEPT ![1] = 33])
  /\ tampered' = TRUE
  /\ pkts' = None
  /\ UNCHANGED <<tokenVars, parsed, verdict, verifierVars>>

\* let result = Token::deserialize(bytes)
DoDeserialize ==
  /\ wire.kind = "Ok"
  /\ parsed.kind = "None"
  /\ parsed' = Deserialize(wire.val)
  /\ UNCHANGED <<tokenVars, wireVars, verdict, verifierVars>>

\* verify(root_key, token) on the deserialized token, with `checker`
\* registered.
DoVerify(root_key, checker) ==
  /\ parsed.kind = "Ok"
  /\ ~verdict.done
  /\ verdict' = [done |-> TRUE, key |-> root_key, checker |-> checker,
                 result |-> Verify(root_key, parsed.val, checker)]
  /\ UNCHANGED <<tokenVars, wireVars, parsed, verifierVars>>

Init == InitToken /\ InitWire /\ InitVerifier

Next ==
  \/ \E k \in RootKeys, i \in Identifiers, l \in Locations : New(k, i, l)
  \/ \E p \in Predicates : AddCaveat(p)
  \/ DoSerialize
  \/ \E p \in PacketMenu : CraftPacket(p)
  \/ CraftEmpty
  \/ \E i \in 1..MaxTamperPos, b \in TamperBytes : Overwrite(i, b)
  \/ Truncate
  \/ Garble
  \/ DoDeserialize
  \/ \E k \in RootKeys, c \in Checkers : DoVerify(k, c)

Spec == Init /\ [][Next]_vars

\* ---------------------------------------------------- the codec on its own

InitCodec ==
  /\ tok \in {Some(t) : t \in SmallTokens \cup LargeTokens}
  /\ given = NoCall /\ minted = None /\ recv = None /\ last = NoCall
  /\ InitWire /\ InitVerifier

NextCodec == DoSerialize \/ DoDeserialize

SpecCodec == InitCodec /\ [][NextCodec]_vars

\* -------------------------------------------------- the verifiers on their own

\* Eq(tag, value).verify(caveat)
EqCheck(tag, value, caveat) ==
  /\ ~eqc.done /\ ~chain.some
  /\ eqc' = [done |-> TRUE, tag |-> tag, value |-> value, caveat |-> caveat,
             out |-> VerifierVerify(Eq(tag, value), caveat)]
  /\ UNCHANGED <<tokenVars, wireVars, parsed, verdict, chain, members, lres>>

\* let chain = x
Base(x) ==
  /\ ~chain.some /\ ~eqc.done
  /\ chain' = Some(x)
  /\ members' = {x}
  /\ UNCHANGED <<tokenVars, wireVars, parsed, verdict, lres, eqc>>

\* The number of LinkedVerifier nodes of a verifier.
RECURSIVE Links(_)
Links(v) == IF v.kind = "Linked" THEN 1 + Links(v.verifier1) + Links(v.verifier2) ELSE 0

\* let chain = chain.link(x)
LinkLeaf(x) ==
  /\ chain.some /\ ~lres.done
  /\ Links(chain.v) < MaxLinks
  /\ chain' = Some(Link(chain.v, x))
  /\ members' = members \cup {x}
  /\ UNCHANGED <<tokenVars, wireVars, parsed, verdict, lres, eqc>>

\* let chain = chain.link(x.link(y)): a chain linked with a chain
LinkNested(x, y) ==
  /\ chain.some /\ ~lres.done
  /\ Links(chain.v) + 1 < MaxLinks
  /\ chain' = Some(Link(chain.v, Link(x, y)))
  /\ members' = members \cup {x, y}
  /\ UNCHANGED <<tokenVars, wireVars, parsed, verdict, lres, eqc>>

\* let chain = LinkedVerifier::from(chain, x): the chain as the first of two
FromFirst(x) ==
  /\ chain.some /\ ~lres.done
  /\ Links(chain.v) < MaxLinks
  /\ chain' = Some(LinkedVerifierFrom(chain.v, x))
  /\ members' = members \cup {x}
  /\ UNCHANGED <<tokenVars, wireVars, parsed, verdict, lres, eqc>>

\* chain.verify(caveat)
ChainVerify(caveat) ==
  /\ chain.some /\ ~lres.done
  /\ lres' = [done |-> TRUE, caveat |-> caveat, out |-> VerifierVerify(chain.v, caveat)]
  /\ UNCHANGED <<tokenVars, wireVars, parsed, verdict, chain, members, eqc>>

NextVerifier ==
  \/ \E t \in EqTags, v \in EqValues, c \in EqCaveats : EqCheck(t, v, c)
  \/ \E x \in Leaves : Base(x)
  \/ \E x \in Leaves : LinkLeaf(x)
  \/ \E x \in Leaves, y \in Leaves : LinkNested(x, y)
  \/ \E x \in Leaves : FromFirst(x)
  \/ \E c \in ChainCaveats : ChainVerify(c)

SpecVerifier == Init /\ [][NextVerifier]_vars

\* ------------------------------------------------------------- properties

PredicatesOf(caveats) == [i \in 1..Len(caveats) |-> caveats[i].predicate] \o <<>>

\* The chain step MAC(message = predicate, key = previous tag) folded over
\* the predicates, first to last, from `init`.
RECURSIVE ChainFold(_, _)
ChainFold(init, preds) ==
  IF preds = <<>> THEN init
  ELSE authenticate(preds[Len(preds)], ChainFold(init, SubSeq(preds, 1, Len(preds) - 1)))

\* The largest packet serialize would emit for a token fits the bound.
Fits(t) ==
  \A i \in 1..Len(TokenPackets(t)) :
    PacketLength(TokenPackets(t)[i].field, TokenPackets(t)[i].value) <= MAX_PACKET_LENGTH

SameToken(a, b) ==
  /\ a.location = b.location
  /\ a.identifier = b.identifier
  /\ Len(a.caveats) = Len(b.caveats)
  /\ PredicatesOf(a.caveats) = PredicatesOf(b.caveats)
  /\ a.tag = b.tag

\* C1 as stated: for every Token T, T.serialize() returns bytes and
\* Token::deserialize of them succeeds with a Token equal to T in location,
\* identifier, caveat predicates (number, order, bytes) and tag.
C1_RoundTripEveryToken ==
  /\ wire.kind # "None" => wire.kind = "Ok"
  /\ parsed.kind # "None" => parsed.kind = "Ok" /\ SameToken(parsed.val, tok.v)

\* C1, amended: the round trip holds for every Token whose packets each fit
\* in MAX_PACKET_LENGTH bytes, empty values and values with spaces or
\* newlines included.
C1_RoundTrip ==
  Fits(tok.v) =>
    /\ wire.kind # "None" => wire.kind = "Ok"
    /\ parsed.kind # "None" => parsed.kind = "Ok" /\ SameToken(parsed.val, tok.v)

C1_Witness ==
  /\ parsed.kind = "Ok"
  /\ tok.v.location = <<97, SP, 98, NL>>
  /\ tok.v.identifier = <<>>
  /\ Len(tok.v.caveats) = 2
  /\ tok.v.tag = Fill(TAGBYTES, SP)

\* C2: the tag of a Token made by new and any add_caveat calls is the fold
\* of the chain step over its caveat predicates in stored order, starting
\* from the signature new computed; so it is a function of the root key,
\* the identifier and the ordered predicates alone.
C2_ChainInvariant ==
  tok.some /\ minted.some =>
    /\ tok.v.tag = ChainFold(minted.v.tag, PredicatesOf(tok.v.caveats))
    /\ tok.v.tag = ChainFold(TokenNew(given.key, given.identifier, given.location).tag,
                             PredicatesOf(tok.v.caveats))

C2_Witness ==
  /\ tok.some /\ minted.some
  /\ PredicatesOf(tok.v.caveats) = <<P_other, P_alice>>

\* C3: add_caveat leaves its receiver as it was, and returns a Token with
\* the receiver's location and identifier and with the receiver's caveats
\* followed by the new one.
C3_FunctionalAppend ==
  last.done =>
    /\ recv.some
    /\ recv.v = last.before
    /\ tok.v.location = last.before.location
    /\ tok.v.identifier = last.before.identifier
    /\ tok.v.caveats = Append(last.before.caveats, last.caveat)

C3_Witness ==
  /\ last.done
  /\ Len(last.before.caveats) = 1
  /\ last.before.caveats[1] # last.caveat

\* The leaf verifiers of a verifier.
RECURSIVE LeavesOf(_)
LeavesOf(v) ==
  IF v.kind = "Linked" THEN LeavesOf(v.verifier1) \cup LeavesOf(v.verifier2) ELSE {v}

Accepts(v, caveat) ==
  LET r == VerifierVerify(v, caveat) IN r.kind = "Ok" /\ r.val

\* C4: verify accepts exactly when the signature re-derived from the root
\* key, the identifier and the predicates in stored order is the token's,
\* and every caveat is accepted by at least one registered checker; a
\* signature mismatch rejects whatever the checkers are.
C4_VerifyIff ==
  verdict.done =>
    LET t == parsed.val
        expected == ChainFold(TokenNew(verdict.key, t.identifier, t.location).tag,
                              PredicatesOf(t.caveats))
        satisfied == \A i \in 1..Len(t.caveats) :
                       /\ ~t.caveats[i].verification_id.some
                       /\ \E c \in LeavesOf(verdict.checker) : Accepts(c, t.caveats[i].predicate)
    IN  /\ (verdict.result = "accepted") <=> (expected = t.tag /\ satisfied)
        /\ expected # t.tag => verdict.result = "SignatureMismatchError"

C4_Witness ==
  /\ verdict.done
  /\ verdict.result = "accepted"
  /\ PredicatesOf(parsed.val.caveats) = <<P_alice, P_other>>

\* C5: deserialize returns Ok or Err on every input; it never panics.
C5_NeverPanics == parsed.kind \in {"None", "Ok", "Err"}

\* A stream of packets with known field names and 32-byte signatures.
WellFormed(ps) ==
  \A i \in 1..Len(ps) :
    /\ ps[i].field \in {F_location, F_identifier, F_cid, F_signature}
    /\ ps[i].field = F_signature => Len(ps[i].value) = TAGBYTES

Absent(ps, field) == \A i \in 1..Len(ps) : ps[i].field # field

\* C6 as stated: a well-formed stream decodes only if location, identifier
\* and signature each appear; each absent one is the field the failure
\* names, so every stream without a signature packet fails with the
\* missing-'signature' error.
C6_EachAbsentFieldNamed ==
  pkts.some /\ WellFormed(pkts.v) /\ parsed.kind # "None" =>
    /\ parsed.kind = "Ok" =>
         ~Absent(pkts.v, F_location) /\ ~Absent(pkts.v, F_identifier)
         /\ ~Absent(pkts.v, F_signature)
    /\ Absent(pkts.v, F_location) => parsed = Err("no 'location' found")
    /\ Absent(pkts.v, F_identifier) => parsed = Err("no 'identifier' found")
    /\ Absent(pkts.v, F_signature) => parsed = Err("no 'signature' found")

\* C6, amended: a well-formed stream decodes iff location, identifier and
\* signature each appear; otherwise the failure names the first absent
\* field in the order location, identifier, signature, so a stream with a
\* location and an identifier packet and no signature packet fails with
\* the missing-'signature' error.
C6_FirstAbsentFieldNamed ==
  pkts.some /\ WellFormed(pkts.v) /\ parsed.kind # "None" =>
    IF Absent(pkts.v, F_location) THEN parsed = Err("no 'location' found")
    ELSE IF Absent(pkts.v, F_identifier) THEN parsed = Err("no 'identifier' found")
    ELSE IF Absent(pkts.v, F_signature) THEN parsed = Err("no 'signature' found")
    ELSE parsed.kind = "Ok"

C6_Witness ==
  /\ pkts.some /\ WellFormed(pkts.v)
  /\ Len(pkts.v) = 3
  /\ Absent(pkts.v, F_signature)
  /\ parsed = Err("no 'signature' found")

\* The 0-based offset of packet i in the stream of packets ps.
RECURSIVE OffsetOf(_, _)
OffsetOf(ps, i) ==
  IF i = 1 THEN 0
  ELSE OffsetOf(ps, i - 1) + PacketLength(ps[i - 1].field, ps[i - 1].value)

\* C7: serializing a token one of whose packets would be longer than
\* 65535 bytes fails with "packet too large to serialize" and returns no
\* bytes; otherwise it succeeds, and a packet of exactly 65535 bytes is
\* emitted with the prefix "ffff".
C7_PacketBound ==
  wire.kind # "None" =>
    LET ps == TokenPackets(tok.v) IN
    IF ~Fits(tok.v)
    THEN wire.kind = "Panic" /\ wire.err = "packet too large to serialize" /\ wire.val = <<>>
    ELSE /\ wire.kind = "Ok"
         /\ \A i \in 1..Len(ps) :
              PacketLength(ps[i].field, ps[i].value) = MAX_PACKET_LENGTH =>
                Slice(FromBase64(wire.val).val, OffsetOf(ps, i),
                      OffsetOf(ps, i) + PACKET_PREFIX_LENGTH) = <<102, 102, 102, 102>>

C7_Witness ==
  /\ wire.kind = "Panic"
  /\ Len(tok.v.caveats) = 2
  /\ PacketLength(F_cid, tok.v.caveats[2].predicate) = MAX_PACKET_LENGTH + 1

\* C8: a verifier built with LinkedVerifier::from and link, in any order
\* and nesting, accepts a caveat iff at least one of the verifiers linked
\* into it accepts it; at its top, from(a, b) accepts iff a or b accepts.
C8_LinkedOr ==
  lres.done =>
    /\ lres.out.kind = "Ok"
    /\ lres.out.val = (\E m \in members : Accepts(m, lres.caveat))
    /\ chain.v.kind = "Linked" =>
         lres.out.val = (Accepts(chain.v.verifier1, lres.caveat)
                         \/ Accepts(chain.v.verifier2, lres.caveat))

C8_Witness ==
  /\ lres.done
  /\ Links(chain.v) = 2
  /\ lres.out.kind = "Ok" /\ lres.out.val
  /\ ~Accepts(chain.v.verifier1, lres.caveat)
  /\ Cardinality(members) = 3

\* C9: Eq(tag, value).verify(caveat) returns true iff caveat is exactly
\* tag ++ " = " ++ value, and false otherwise; it never panics.
C9_EqExact ==
  eqc.done =>
    /\ eqc.out.kind = "Ok"
    /\ eqc.out.val = (eqc.caveat = eqc.tag \o <<32, 61, 32>> \o eqc.value)

C9_Witness ==
  /\ eqc.done
  /\ eqc.tag = <<>> /\ eqc.value = <<>>
  /\ eqc.out.kind = "Ok" /\ eqc.out.val

\* C10 as stated: new derives the personalized key as MAC(message = the
\* 32-byte constant, key = root key), signs the identifier under it, and
\* returns a Token with no caveats and the given identifier and location.
C10_ConstantAsMessage ==
  minted.some =>
    /\ minted.v.tag = authenticate(given.identifier, authenticate(KEY_GENERATOR, given.key))
    /\ minted.v.caveats = <<>>
    /\ minted.v.identifier = given.identifier
    /\ minted.v.location = given.location

\* C10, amended: new derives the personalized key as MAC(message = root
\* key, key = the 32-byte constant), signs the identifier under it, and
\* returns a Token with no caveats and the given identifier and location.
C10_ConstantAsKey ==
  minted.some =>
    /\ minted.v.tag = authenticate(given.identifier, authenticate(given.key, KEY_GENERATOR))
    /\ minted.v.caveats = <<>>
    /\ minted.v.identifier = given.identifier
    /\ minted.v.location = given.location

C10_Witness ==
  /\ minted.some
  /\ given.key = Fill(32, 1)
  /\ given.identifier # <<>>
  /\ given.location # <<>>
====
